---- MODULE Spec2Model ----
(***************************************************************************)
(* Model of ratatui-cfg: the metadata-driven nested-configuration editor.  *)
(*                                                                         *)
(* A text (Rust String) is a sequence of characters, each character a      *)
(* one-token string.  In the derived Debug output of a compound value the  *)
(* identifiers and punctuation runs are kept as single tokens; such texts  *)
(* are only ever displayed, never edited.                                  *)
(***************************************************************************)
EXTENDS Integers, Sequences, FiniteSets, TLC

\* ------------------------------------------------------------------ state

VARIABLES
    root_type,      \* T, the root type MenuController<T> is instantiated with
    config,         \* MenuController::config, the root instance
    menu_state,     \* MenuController::menu_state
    editing_mode,   \* MenuController::editing_mode
    edit_buffer,    \* MenuController::edit_buffer
    edit_cursor,    \* MenuController::edit_cursor, a byte offset
    panicked        \* the program aborted in a String::insert or String::remove

vars == <<root_type, config, menu_state, editing_mode, edit_buffer, edit_cursor, panicked>>

session == <<editing_mode, edit_buffer, edit_cursor>>

\* ------------------------------------------------------------------ bounds

\* Longest buffer the user types into (insert-character is offered below it).
MaxBuf == 1

\* ------------------------------------------------------------------ texts

Ok(v) == [ok |-> TRUE, val |-> v]
Err(e) == [ok |-> FALSE, err |-> e]

None == [some |-> FALSE]
Some(v) == [some |-> TRUE, val |-> v]

\* A character that UTF-8 encodes in two bytes.
WideChar == "U+00E9"

\* char::len_utf8
ByteLen(c) == IF c = WideChar THEN 2 ELSE 1

\* String::len: the length in bytes
RECURSIVE StrLen(_)
StrLen(s) == IF s = <<>> THEN 0 ELSE ByteLen(Head(s)) + StrLen(Tail(s))

\* str::is_char_boundary
IsCharBoundary(s, off) == \E i \in 0..Len(s) : StrLen(SubSeq(s, 1, i)) = off

\* The number of characters before byte offset off (off a character boundary).
CharIndex(s, off) == CHOOSE i \in 0..Len(s) : StrLen(SubSeq(s, 1, i)) = off

StartsWith(s, p) == Len(s) >= Len(p) /\ SubSeq(s, 1, Len(p)) = p

\* str::contains
RECURSIVE Contains(_, _)
Contains(s, p) ==
    IF Len(s) < Len(p) THEN FALSE
    ELSE IF StartsWith(s, p) THEN TRUE
    ELSE Contains(Tail(s), p)

\* str::replace: every non-overlapping match, left to right
RECURSIVE Replace(_, _, _)
Replace(s, from, to) ==
    IF s = <<>> THEN <<>>
    ELSE IF StartsWith(s, from) THEN to \o Replace(SubSeq(s, Len(from) + 1, Len(s)), from, to)
    ELSE <<Head(s)>> \o Replace(Tail(s), from, to)

Digits == <<"0", "1", "2", "3", "4", "5", "6", "7", "8", "9">>

IsDigit(c) == \E i \in 1..10 : Digits[i] = c

DigitVal(c) == (CHOOSE i \in 1..10 : Digits[i] = c) - 1

RECURSIVE FormatNat(_)
FormatNat(n) == IF n < 10 THEN <<Digits[n + 1]>> ELSE FormatNat(n \div 10) \o <<Digits[(n % 10) + 1]>>

\* <u8 as Debug>::fmt
FormatU8(n) == FormatNat(n)

\* <bool as Debug>::fmt
FormatBool(b) == IF b THEN <<"t", "r", "u", "e">> ELSE <<"f", "a", "l", "s", "e">>

\* char::escape_debug as <str as Debug>::fmt applies it
EscapeDebug(c) ==
    IF c = "\"" THEN <<"\\", "\"">>
    ELSE IF c = "\\" THEN <<"\\", "\\">>
    ELSE IF c = "\n" THEN <<"\\", "n">>
    ELSE IF c = "\t" THEN <<"\\", "t">>
    ELSE <<c>>

RECURSIVE EscapeAll(_)
EscapeAll(s) == IF s = <<>> THEN <<>> ELSE EscapeDebug(Head(s)) \o EscapeAll(Tail(s))

\* <String as Debug>::fmt
FormatString(s) == <<"\"">> \o EscapeAll(s) \o <<"\"">>

\* strip_debug_quotes that unescapes the quotes and leaves the backslashes doubled
strip_debug_quotes_keeps_backslashes(s) ==
    IF s # <<>> /\ Head(s) = "\"" /\ s[Len(s)] = "\"" /\ StrLen(s) >= 2
    THEN Replace(SubSeq(s, 2, Len(s) - 1), <<"\\", "\"">>, <<"\"">>)
    ELSE s

strip_debug_quotes(s) ==
    IF s # <<>> /\ Head(s) = "\"" /\ s[Len(s)] = "\"" /\ StrLen(s) >= 2
    THEN LET inner == SubSeq(s, 2, Len(s) - 1)
         IN  Replace(Replace(inner, <<"\\", "\"">>, <<"\"">>), <<"\\", "\\">>, <<"\\">>)
    ELSE s

U8Max == 255

RECURSIVE NatOf(_, _)
NatOf(s, acc) == IF s = <<>> THEN acc ELSE NatOf(Tail(s), acc * 10 + DigitVal(Head(s)))

ParseFailed == "Failed to parse"

\* <u8 as FromStr>::from_str: an optional '+', then one or more digits, no overflow
parse_u8(value) ==
    LET body == IF value # <<>> /\ Head(value) = "+" THEN Tail(value) ELSE value
    IN  IF body = <<>> \/ \E i \in 1..Len(body) : ~IsDigit(body[i]) THEN Err(ParseFailed)
        ELSE IF NatOf(body, 0) > U8Max THEN Err(ParseFailed)
        ELSE Ok(NatOf(body, 0))

\* <bool as FromStr>::from_str
parse_bool(value) ==
    IF value = <<"t", "r", "u", "e">> THEN Ok(TRUE)
    ELSE IF value = <<"f", "a", "l", "s", "e">> THEN Ok(FALSE)
    ELSE Err(ParseFailed)

parse_String(value) == Ok(value)

\* ------------------------------------------------------------------ schema

\* A syn::Type path: its last segment's identifier and generic arguments.
Ty(ident) == [ident |-> ident, args |-> <<>>]
VecOf(t) == [ident |-> "Vec", args |-> <<t>>]
OptionOf(t) == [ident |-> "Option", args |-> <<t>>]

PrimitiveIdents ==
    {"bool", "i8", "i16", "i32", "i64", "i128", "u8", "u16", "u32", "u64", "u128",
     "f32", "f64", "String", "str", "usize", "isize"}

StructNames ==
    {"AppConfig", "Server", "Tls", "Limits", "Misc", "Profile", "Endpoint", "Settings",
     "Account", "Contact"}

\* The structs that derive ConfigMenu, as declared by four applications.
StructFields(s) ==
    CASE s = "AppConfig" ->
            << [name |-> "server", ty |-> Ty("Server")],
               [name |-> "debug", ty |-> Ty("bool")],
               [name |-> "tls", ty |-> Ty("Tls")],
               [name |-> "tags", ty |-> VecOf(Ty("String"))],
               [name |-> "peers", ty |-> VecOf(Ty("Server"))],
               [name |-> "misc", ty |-> Ty("Misc")] >>
      [] s = "Server" ->
            << [name |-> "tls", ty |-> Ty("Tls")],
               [name |-> "limits", ty |-> Ty("Limits")],
               [name |-> "auth", ty |-> Ty("Tls")] >>
      [] s = "Tls" -> << [name |-> "enabled", ty |-> Ty("bool")] >>
      [] s = "Limits" -> << [name |-> "max", ty |-> Ty("u8")] >>
      [] s = "Misc" -> << >>
      [] s = "Profile" ->
            << [name |-> "server", ty |-> Ty("Endpoint")],
               [name |-> "tags", ty |-> VecOf(Ty("String"))] >>
      [] s = "Endpoint" ->
            << [name |-> "host", ty |-> Ty("String")],
               [name |-> "tags", ty |-> VecOf(Ty("String"))] >>
      [] s = "Settings" ->
            << [name |-> "retries", ty |-> Ty("u8")],
               [name |-> "limits", ty |-> Ty("Limits")] >>
      [] s = "Account" ->
            << [name |-> "nick", ty |-> OptionOf(Ty("String"))],
               [name |-> "contact", ty |-> Ty("Contact")] >>
      [] s = "Contact" -> << [name |-> "alias", ty |-> OptionOf(Ty("String"))] >>

\* T of MenuController<T>
RootType == root_type

\* (is_nested, is_option, is_vec, inner_type, inner_type_ident)
RECURSIVE analyze_type(_)
analyze_type(ty) ==
    IF ty.ident = "Option" /\ Len(ty.args) > 0
    THEN LET r == analyze_type(ty.args[1])
         IN  [is_nested |-> r.is_nested, is_option |-> TRUE, is_vec |-> FALSE,
              inner_type |-> r.inner_type, inner_ident |-> r.inner_ident]
    ELSE IF ty.ident = "Vec" /\ Len(ty.args) > 0
    THEN LET r == analyze_type(ty.args[1])
         IN  [is_nested |-> r.is_nested, is_option |-> FALSE, is_vec |-> TRUE,
              inner_type |-> r.inner_type, inner_ident |-> r.inner_ident]
    ELSE IF ty.ident \in PrimitiveIdents
    THEN [is_nested |-> FALSE, is_option |-> FALSE, is_vec |-> FALSE,
          inner_type |-> ty.ident, inner_ident |-> None]
    ELSE [is_nested |-> TRUE, is_option |-> FALSE, is_vec |-> FALSE,
          inner_type |-> ty.ident, inner_ident |-> Some(ty.ident)]

\* FieldType::from_str: the type tag of an inner type name
FieldType_from_str(inner_type) ==
    CASE inner_type = "String" -> "String"
      [] inner_type = "str" -> "String"
      [] inner_type = "bool" -> "Bool"
      [] inner_type = "u8" -> "U8"
      [] inner_type = "Unknown" -> "Unknown"
      [] OTHER -> "Nested"

\* The FieldMetadata entry the derive generates for field fld of struct owner.
\* The closures are getter, setter, nested_getter, nested_metadata_getter and
\* nested_setter below; they read owner, name, ty and inner_ident.
FieldMetadata(owner, fld) ==
    LET a == analyze_type(fld.ty)
    IN  [name |-> fld.name,
         owner |-> owner,
         ty |-> fld.ty,
         is_nested |-> a.is_nested,
         is_option |-> a.is_option,
         is_vec |-> a.is_vec,
         field_type |-> FieldType_from_str(a.inner_type),
         inner_ident |-> a.inner_ident]

\* The descriptor list the derive generates for each struct.
DerivedMetadata ==
    [s \in StructNames |-> [i \in 1..Len(StructFields(s)) |-> FieldMetadata(s, StructFields(s)[i])]]

\* <S as ConfigMenuTrait>::get_field_metadata
get_field_metadata(s) == DerivedMetadata[s]

\* <S as ConfigMenuTrait>::get_menu_title
get_menu_title(s) == s

\* metadata.iter().find(|m| m.name == field_name)
FindField(metadata, field_name) ==
    IF \E i \in 1..Len(metadata) : metadata[i].name = field_name
    THEN Some(metadata[CHOOSE i \in 1..Len(metadata) :
                 /\ metadata[i].name = field_name
                 /\ \A j \in 1..(i - 1) : metadata[j].name # field_name])
    ELSE None

\* ------------------------------------------------------------------ values

\* A struct value is the record of its fields, a Vec value a sequence.  A
\* dyn Any is the value together with its runtime type.
BoxAny(ty, v) == [tid |-> ty, val |-> v]

\* ConfigMenuTrait::as_any of the root
as_any(cfg) == BoxAny(Ty(RootType), cfg)

RECURSIVE JoinFields(_, _, _)
RECURSIVE JoinElems(_, _)
RECURSIVE FormatValue(_, _)

\* #[derive(Debug)] and the Debug of the primitives and of Vec
FormatValue(ty, v) ==
    CASE ty.ident = "String" -> FormatString(v)
      [] ty.ident = "bool" -> FormatBool(v)
      [] ty.ident = "u8" -> FormatU8(v)
      [] ty.ident = "Vec" -> <<"[">> \o JoinElems(ty.args[1], v) \o <<"]">>
      [] ty.ident = "Option" ->
            IF v.some THEN <<"S", "o", "m", "e", "(">> \o FormatValue(ty.args[1], v.val) \o <<")">>
            ELSE <<"N", "o", "n", "e">>
      [] OTHER ->
            IF StructFields(ty.ident) = <<>> THEN <<ty.ident>>
            ELSE <<ty.ident, " { ">> \o JoinFields(StructFields(ty.ident), v, 1) \o <<" }">>

JoinFields(flds, v, i) ==
    IF i > Len(flds) THEN <<>>
    ELSE (IF i > 1 THEN <<", ">> ELSE <<>>)
            \o <<flds[i].name, ": ">> \o FormatValue(flds[i].ty, v[flds[i].name])
            \o JoinFields(flds, v, i + 1)

JoinElems(ty, vs) ==
    IF vs = <<>> THEN <<>>
    ELSE FormatValue(ty, Head(vs)) \o (IF Len(vs) > 1 THEN <<", ">> ELSE <<>>) \o JoinElems(ty, Tail(vs))

format_field_value(ty, v) == FormatValue(ty, v)

\* <T as ParsableField>::parse_from_string for T: ConfigMenuTrait, toml::from_str.
\* No text the editor can hold has a '=', so the only document that parses is
\* the empty one, which deserializes into a struct without fields.
parse_nested(ty, value) ==
    IF value = <<>> /\ StructFields(ty.ident) = <<>> THEN Ok(<<>>)
    ELSE Err("Failed to parse nested config")

\* ParsableField of a Vec: no text the editor can hold is a list.
parse_Vec(ty, value) == Err(ParseFailed)

\* ParsableField of an Option: no conversion of a text into an optional value.
parse_Option(ty, value) == Err(ParseFailed)

\* <T as ParsableField>::parse_from_string for the field's declared type
parse_from_string(ty, value) ==
    CASE ty.ident = "String" -> parse_String(value)
      [] ty.ident = "bool" -> parse_bool(value)
      [] ty.ident = "u8" -> parse_u8(value)
      [] ty.ident = "Vec" -> parse_Vec(ty, value)
      [] ty.ident = "Option" -> parse_Option(ty, value)
      [] OTHER -> parse_nested(ty, value)

\* the derive's getter closure
getter(m, any) ==
    IF any.tid = Ty(m.owner) THEN Some(format_field_value(m.ty, any.val[m.name])) ELSE None

\* the derive's setter closure with parse_and_set: the owner after the call
setter(m, any, value) ==
    IF any.tid = Ty(m.owner)
    THEN LET r == parse_from_string(m.ty, value)
         IN  IF r.ok THEN Ok([any EXCEPT !.val[m.name] = r.val]) ELSE r
    ELSE Err("Type mismatch")

\* the derive's nested_getter closure: a detached copy of the field
nested_getter(m, any) ==
    IF any.tid = Ty(m.owner) THEN Some(BoxAny(m.ty, any.val[m.name])) ELSE None

\* the derive's nested_metadata_getter closure
nested_metadata_getter(m) == get_field_metadata(m.inner_ident.val)

\* nested_setter that checks the types and then forgets to assign the field
nested_setter_without_assignment(m, any, value) ==
    IF any.tid = Ty(m.owner)
    THEN IF value.tid = Ty(m.inner_ident.val) THEN Ok(any)
         ELSE Err("Type mismatch when setting nested field")
    ELSE Err("Config type mismatch")

\* the derive's nested_setter closure: the owner after the call
nested_setter(m, any, value) ==
    IF any.tid = Ty(m.owner)
    THEN IF value.tid = Ty(m.inner_ident.val)
         THEN Ok([any EXCEPT !.val[m.name] = value.val])
         ELSE Err("Type mismatch when setting nested field")
    ELSE Err("Config type mismatch")

\* ------------------------------------------------------------------ MenuState

NotAvailable == <<"N", "/", "A">>
NotSet == <<"<", "n", "o", "t", " ", "s", "e", "t", ">">>

\* the display rule shared by build_menu_items and build_menu_items_from_any
value_display(field, value) ==
    IF field.is_option
    THEN IF Contains(value, <<"N", "o", "n", "e">>) THEN NotSet
         ELSE Replace(Replace(value, <<"S", "o", "m", "e", "(">>, <<>>), <<")">>, <<>>)
    ELSE value

MenuItem(field, value) ==
    [label |-> field.name,
     value |-> value_display(field, value),
     is_submenu |-> field.is_nested,
     is_vec_container |-> field.is_vec,
     field_type |-> field.field_type]

build_menu_items_from_any(nested_any, metadata) ==
    [i \in 1..Len(metadata) |->
        LET v == getter(metadata[i], nested_any)
        IN  MenuItem(metadata[i], IF v.some THEN v.val ELSE NotAvailable)]

build_menu_items(cfg, metadata) ==
    [i \in 1..Len(metadata) |->
        LET v == getter(metadata[i], as_any(cfg))
        IN  MenuItem(metadata[i], IF v.some THEN v.val ELSE NotAvailable)]

MenuLevel(items, selection, title, field_path) ==
    [items |-> items, selection |-> selection, title |-> title, field_path |-> field_path]

\* MenuState::new
MenuState_new(cfg) ==
    LET items == build_menu_items(cfg, get_field_metadata(RootType))
    IN  [current_selection |-> 0,
         items |-> items,
         list_state |-> IF items # <<>> THEN Some(0) ELSE None,
         breadcrumb |-> <<get_menu_title(RootType)>>,
         menu_stack |-> <<MenuLevel(items, 0, get_menu_title(RootType), <<>>)>>]

\* MenuState::get_current_item
get_current_item(ms) ==
    IF ms.current_selection < Len(ms.items) THEN Some(ms.items[ms.current_selection + 1]) ELSE None

\* The descriptors enter_submenu_by_name searches: those of T, the type of the
\* parent_config argument, which at both call sites is the controller's root.
submenu_metadata(ms) == get_field_metadata(RootType)

\* An enter_submenu_by_name that pushes the level and not its breadcrumb title
enter_submenu_by_name_without_breadcrumb(ms, parent_config, field_name) ==
    LET found == FindField(submenu_metadata(ms), field_name)
    IN  IF ~found.some THEN Err("Field not found")
        ELSE IF ~found.val.is_nested THEN Err("Field is not a nested structure")
        ELSE LET field_meta == found.val
                 nested_any == nested_getter(field_meta, as_any(parent_config))
             IN  IF ~nested_any.some THEN Err("Cannot access nested configuration")
                 ELSE LET nested_items ==
                              build_menu_items_from_any(nested_any.val, nested_metadata_getter(field_meta))
                          current_level == ms.menu_stack[Len(ms.menu_stack)]
                          new_level == MenuLevel(nested_items, 0, field_name,
                                                 Append(current_level.field_path, field_name))
                      IN  Ok([ms EXCEPT !.menu_stack = Append(@, new_level),
                                        !.items = nested_items,
                                        !.current_selection = 0,
                                        !.list_state = Some(0)])

\* MenuState::enter_submenu_by_name: the state after the call, or the error
enter_submenu_by_name(ms, parent_config, field_name) ==
    LET found == FindField(submenu_metadata(ms), field_name)
    IN  IF ~found.some THEN Err("Field not found")
        ELSE IF ~found.val.is_nested THEN Err("Field is not a nested structure")
        ELSE LET field_meta == found.val
                 nested_any == nested_getter(field_meta, as_any(parent_config))
             IN  IF ~nested_any.some THEN Err("Cannot access nested configuration")
                 ELSE LET nested_items ==
                              build_menu_items_from_any(nested_any.val, nested_metadata_getter(field_meta))
                          current_level == ms.menu_stack[Len(ms.menu_stack)]
                          new_level == MenuLevel(nested_items, 0, field_name,
                                                 Append(current_level.field_path, field_name))
                      IN  Ok([ms EXCEPT !.menu_stack = Append(@, new_level),
                                        !.breadcrumb = Append(@, field_name),
                                        !.items = nested_items,
                                        !.current_selection = 0,
                                        !.list_state = Some(0)])

\* MenuState::enter_submenu_by_name::<U> as any caller of the public method
\* can instantiate it: the descriptors searched are those of U, the type of
\* the parent instance passed.  The state after the call, or the error.
enter_submenu_by_name_in(ms, parent_type, parent_config, field_name) ==
    LET found == FindField(get_field_metadata(parent_type), field_name)
    IN  IF ~found.some THEN Err("Field not found")
        ELSE IF ~found.val.is_nested THEN Err("Field is not a nested structure")
        ELSE LET field_meta == found.val
                 nested_any == nested_getter(field_meta, BoxAny(Ty(parent_type), parent_config))
             IN  IF ~nested_any.some THEN Err("Cannot access nested configuration")
                 ELSE LET nested_items ==
                              build_menu_items_from_any(nested_any.val, nested_metadata_getter(field_meta))
                          current_level == ms.menu_stack[Len(ms.menu_stack)]
                          new_level == MenuLevel(nested_items, 0, field_name,
                                                 Append(current_level.field_path, field_name))
                      IN  Ok([ms EXCEPT !.menu_stack = Append(@, new_level),
                                        !.breadcrumb = Append(@, field_name),
                                        !.items = nested_items,
                                        !.current_selection = 0,
                                        !.list_state = Some(0)])

\* MenuState::get_current_field_path
get_current_field_path(ms) ==
    LET path == ms.menu_stack[Len(ms.menu_stack)].field_path
        item == get_current_item(ms)
    IN  IF item.some THEN Append(path, item.val.label) ELSE path

\* MenuState::get_navigation_path
get_navigation_path(ms) == [i \in 1..(Len(ms.menu_stack) - 1) |-> ms.menu_stack[i + 1].title]

\* A next that moves on by one without wrapping at the last item
MenuState_next_without_wrap(ms) ==
    IF ms.items = <<>> THEN ms
    ELSE LET i == IF ms.list_state.some THEN ms.list_state.val + 1 ELSE 0
         IN  [ms EXCEPT !.list_state = Some(i), !.current_selection = i]

\* MenuState::next
MenuState_next(ms) ==
    IF ms.items = <<>> THEN ms
    ELSE LET i == IF ms.list_state.some THEN (ms.list_state.val + 1) % Len(ms.items) ELSE 0
         IN  [ms EXCEPT !.list_state = Some(i), !.current_selection = i]

\* A previous that stops at the first item instead of wrapping to the last
MenuState_previous_without_wrap(ms) ==
    IF ms.items = <<>> THEN ms
    ELSE LET i == IF ms.list_state.some
                  THEN (IF ms.list_state.val = 0 THEN 0 ELSE ms.list_state.val - 1)
                  ELSE 0
         IN  [ms EXCEPT !.list_state = Some(i), !.current_selection = i]

\* MenuState::previous
MenuState_previous(ms) ==
    IF ms.items = <<>> THEN ms
    ELSE LET i == IF ms.list_state.some
                  THEN (IF ms.list_state.val = 0 THEN Len(ms.items) - 1 ELSE ms.list_state.val - 1)
                  ELSE 0
         IN  [ms EXCEPT !.list_state = Some(i), !.current_selection = i]

\* MenuState::can_go_back
can_go_back(ms) == Len(ms.menu_stack) > 1

\* A go_back without the can_go_back test: it pops whatever level is on top
MenuState_go_back_unguarded(ms) ==
    LET stack == SubSeq(ms.menu_stack, 1, Len(ms.menu_stack) - 1)
    IN  IF stack = <<>>
        THEN [ms EXCEPT !.menu_stack = stack, !.breadcrumb = SubSeq(@, 1, Len(@) - 1)]
        ELSE [ms EXCEPT !.menu_stack = stack,
                        !.breadcrumb = SubSeq(@, 1, Len(@) - 1),
                        !.items = stack[Len(stack)].items,
                        !.current_selection = stack[Len(stack)].selection,
                        !.list_state = Some(stack[Len(stack)].selection)]

\* MenuState::go_back
MenuState_go_back(ms) ==
    IF can_go_back(ms)
    THEN LET stack == SubSeq(ms.menu_stack, 1, Len(ms.menu_stack) - 1)
             prev_level == stack[Len(stack)]
         IN  [ms EXCEPT !.menu_stack = stack,
                        !.breadcrumb = SubSeq(@, 1, Len(@) - 1),
                        !.items = prev_level.items,
                        !.current_selection = prev_level.selection,
                        !.list_state = Some(prev_level.selection)]
    ELSE ms

\* ------------------------------------------------------------------ path resolver

\* MenuController::set_field_on_config: the config after the call, or the error
set_field_on_config(cfg, field_name, value) ==
    LET found == FindField(get_field_metadata(RootType), field_name)
    IN  IF ~found.some THEN Err("Field not found")
        ELSE LET r == setter(found.val, as_any(cfg), value)
             IN  IF r.ok THEN Ok(r.val.val) ELSE r

\* MenuController::update_nested_any: the updated capsule, or the error.
\* metadata_getter is the descriptor whose nested_metadata_getter was passed.
RECURSIVE update_nested_any(_, _, _, _)
update_nested_any(nested_any, remaining_path, new_value, metadata_getter) ==
    IF remaining_path = <<>> THEN Ok(nested_any)
    ELSE IF ~metadata_getter.some THEN Err("No metadata getter for nested field")
    ELSE LET metadata == nested_metadata_getter(metadata_getter.val)
             field_name == remaining_path[1]
             found == FindField(metadata, field_name)
         IN  IF ~found.some THEN Err("Field not found in nested structure")
             ELSE LET field_meta == found.val
                  IN  IF Len(remaining_path) = 1
                      THEN setter(field_meta, nested_any, new_value)
                      ELSE IF ~field_meta.is_nested THEN Err("Field is not nested")
                      ELSE LET inner_nested == nested_getter(field_meta, nested_any)
                           IN  IF ~inner_nested.some THEN Err("Failed to get nested field")
                               ELSE LET updated_inner ==
                                            update_nested_any(inner_nested.val, Tail(remaining_path),
                                                              new_value, Some(field_meta))
                                    IN  IF ~updated_inner.ok THEN updated_inner
                                        ELSE nested_setter(field_meta, nested_any, updated_inner.val)

\* A set_nested_field_recursive that drops the error of the capsule's update
\* and reports success on the root as it was
set_nested_field_recursive_swallows_error(cfg, field_path, new_value) ==
    LET root_field == field_path[1]
        found == FindField(get_field_metadata(RootType), root_field)
    IN  IF ~found.some THEN Err("Field not found")
        ELSE LET field_meta == found.val
             IN  IF ~field_meta.is_nested THEN Err("Field is not nested")
                 ELSE LET nested_any == nested_getter(field_meta, as_any(cfg))
                      IN  IF ~nested_any.some THEN Err("Failed to get nested field")
                          ELSE LET updated_nested ==
                                       update_nested_any(nested_any.val, Tail(field_path),
                                                         new_value, Some(field_meta))
                               IN  IF ~updated_nested.ok THEN Ok(cfg)
                                   ELSE LET r == nested_setter(field_meta, as_any(cfg),
                                                               updated_nested.val)
                                        IN  IF r.ok THEN Ok(r.val.val) ELSE r

\* MenuController::set_nested_field_recursive: the config after the call, or the error
set_nested_field_recursive(cfg, field_path, new_value) ==
    LET root_field == field_path[1]
        found == FindField(get_field_metadata(RootType), root_field)
    IN  IF ~found.some THEN Err("Field not found")
        ELSE LET field_meta == found.val
             IN  IF ~field_meta.is_nested THEN Err("Field is not nested")
                 ELSE LET nested_any == nested_getter(field_meta, as_any(cfg))
                      IN  IF ~nested_any.some THEN Err("Failed to get nested field")
                          ELSE LET updated_nested ==
                                       update_nested_any(nested_any.val, Tail(field_path),
                                                         new_value, Some(field_meta))
                               IN  IF ~updated_nested.ok THEN updated_nested
                                   ELSE LET r == nested_setter(field_meta, as_any(cfg),
                                                               updated_nested.val)
                                        IN  IF r.ok THEN Ok(r.val.val) ELSE r

\* MenuController::apply_edit_at_path: the config after the call, or the error
apply_edit_at_path(cfg, field_path, new_value) ==
    IF field_path = <<>> THEN Err("Empty field path")
    ELSE IF Len(field_path) = 1 THEN set_field_on_config(cfg, field_path[1], new_value)
    ELSE set_nested_field_recursive(cfg, field_path, new_value)

\* A replay that gives up the levels it had re-entered when one name fails
RECURSIVE restore_navigation_resets_on_failure(_, _, _)
restore_navigation_resets_on_failure(ms, cfg, current_path) ==
    IF current_path = <<>> THEN ms
    ELSE LET r == enter_submenu_by_name(ms, cfg, Head(current_path))
         IN  IF r.ok THEN restore_navigation_resets_on_failure(r.val, cfg, Tail(current_path))
             ELSE MenuState_new(cfg)

\* The loop of finish_editing and toggle_boolean that re-enters current_path by
\* name, one level at a time, and stops at the first failure.
RECURSIVE restore_navigation(_, _, _)
restore_navigation(ms, cfg, current_path) ==
    IF current_path = <<>> THEN ms
    ELSE LET r == enter_submenu_by_name(ms, cfg, Head(current_path))
         IN  IF r.ok THEN restore_navigation(r.val, cfg, Tail(current_path)) ELSE ms

\* A rebuild that does not replay the navigation path
rebuild_without_replay(ms, cfg) == MenuState_new(cfg)

\* A rebuild that puts the selection of before the commit back on the last level
rebuild_keeps_selection(ms, cfg) ==
    LET rebuilt == restore_navigation(MenuState_new(cfg), cfg, get_navigation_path(ms))
    IN  [rebuilt EXCEPT !.current_selection = ms.current_selection,
                        !.list_state = ms.list_state]

\* The menu state after a successful commit made from menu state ms.
rebuild_menu_state(ms, cfg) ==
    restore_navigation(MenuState_new(cfg), cfg, get_navigation_path(ms))

\* ------------------------------------------------------------------ MenuController

\* The characters the user types: a digit, a quote, a two-byte character.
Chars == {"7", "\"", WideChar}

\* The string values server.host starts with.
Hosts == { <<"\n">>, <<"\\", "\"">> }

ServerValue(tls_enabled) ==
    [tls |-> [enabled |-> tls_enabled], limits |-> [max |-> 1], auth |-> [enabled |-> FALSE]]

\* The optional strings an Account starts with: absent, and present with a
\* plain text, with the text None and with a closing parenthesis.
OptionValues == { None, Some(<<"x">>), Some(<<"N", "o", "n", "e">>), Some(<<")">>) }

\* The root instances the editor is started on, by root type.
Configs(t) ==
    CASE t = "AppConfig" ->
            { [debug |-> FALSE,
               server |-> ServerValue(TRUE),
               tls |-> [enabled |-> FALSE],
               tags |-> << <<"x">> >>,
               peers |-> << ServerValue(FALSE) >>,
               misc |-> << >>] }
      [] t = "Profile" ->
            { [server |-> [host |-> h, tags |-> << <<"x">> >>], tags |-> << >>] : h \in Hosts }
      [] t = "Settings" ->
            { [retries |-> 3, limits |-> [max |-> 1]] }
      [] t = "Account" ->
            { [nick |-> v, contact |-> [alias |-> w]] : v, w \in OptionValues }

RootTypes == {"AppConfig", "Profile", "Settings"}

\* MenuController::new
Init ==
    /\ root_type \in RootTypes
    /\ config \in Configs(root_type)
    /\ menu_state = MenuState_new(config)
    /\ editing_mode = FALSE
    /\ edit_buffer = <<>>
    /\ edit_cursor = 0
    /\ panicked = FALSE

next ==
    /\ ~panicked
    /\ menu_state' = MenuState_next(menu_state)
    /\ UNCHANGED <<root_type, config, session, panicked>>

previous ==
    /\ ~panicked
    /\ menu_state' = MenuState_previous(menu_state)
    /\ UNCHANGED <<root_type, config, session, panicked>>

go_back ==
    /\ ~panicked
    /\ menu_state' = MenuState_go_back(menu_state)
    /\ UNCHANGED <<root_type, config, session, panicked>>

\* What MenuController::enter_submenu returns: the menu state after the call, or the error
enter_submenu_result(ms, cfg) ==
    LET item == get_current_item(ms)
    IN  IF ~item.some THEN Err("No item selected")
        ELSE IF ~item.val.is_submenu THEN Err("Current item is not a submenu")
        ELSE enter_submenu_by_name(ms, cfg, item.val.label)

\* An enter_submenu that resets the selection before it knows the descent works
enter_submenu_resets_selection_first ==
    /\ ~panicked
    /\ LET r == enter_submenu_result(menu_state, config)
       IN  menu_state' = IF r.ok THEN r.val
                         ELSE [menu_state EXCEPT !.current_selection = 0, !.list_state = Some(0)]
    /\ UNCHANGED <<root_type, config, session, panicked>>

enter_submenu ==
    /\ ~panicked
    /\ LET r == enter_submenu_result(menu_state, config)
       IN  menu_state' = IF r.ok THEN r.val ELSE menu_state
    /\ UNCHANGED <<root_type, config, session, panicked>>

\* The buffer start_editing loads for item.
start_buffer(item) ==
    IF item.field_type = "String" THEN strip_debug_quotes(item.value) ELSE item.value

\* Whether start_editing accepts the current item.
can_start_editing(item) == item.some /\ ~item.val.is_submenu /\ ~item.val.is_vec_container

start_editing ==
    /\ ~panicked
    /\ LET item == get_current_item(menu_state)
       IN  IF can_start_editing(item)
           THEN /\ editing_mode' = TRUE
                /\ edit_buffer' = start_buffer(item.val)
                /\ edit_cursor' = StrLen(start_buffer(item.val))
           ELSE UNCHANGED session
    /\ UNCHANGED <<root_type, config, menu_state, panicked>>

\* Whether toggle_boolean accepts the current item.
can_toggle(item) ==
    item.some /\ item.val.field_type = "Bool" /\ ~item.val.is_submenu /\ ~item.val.is_vec_container

\* The text toggle_boolean commits for item.
toggled_value(item) ==
    IF item.value = <<"t", "r", "u", "e">> THEN <<"f", "a", "l", "s", "e">> ELSE <<"t", "r", "u", "e">>

\* A commit that rebuilds the menu state whether or not the resolver succeeded
commit_rebuilds_on_failure(result) ==
    /\ config' = IF result.ok THEN result.val ELSE config
    /\ menu_state' = rebuild_menu_state(menu_state, IF result.ok THEN result.val ELSE config)

\* The commit shared by toggle_boolean and finish_editing: result is what
\* apply_edit_at_path returned; on success the menu state is rebuilt.
commit(result) ==
    /\ config' = IF result.ok THEN result.val ELSE config
    /\ menu_state' = IF result.ok THEN rebuild_menu_state(menu_state, result.val) ELSE menu_state

\* What toggle_boolean returns: the resolver's result, or Ok(config) when it does nothing
toggle_boolean_result(cfg, ms) ==
    LET item == get_current_item(ms)
    IN  IF can_toggle(item)
        THEN apply_edit_at_path(cfg, get_current_field_path(ms), toggled_value(item.val))
        ELSE Ok(cfg)

toggle_boolean ==
    /\ ~panicked
    /\ IF can_toggle(get_current_item(menu_state))
       THEN commit(toggle_boolean_result(config, menu_state))
       ELSE UNCHANGED <<config, menu_state>>
    /\ UNCHANGED <<root_type, session, panicked>>

\* What finish_editing returns: the resolver's result, or Ok(config) when not editing
finish_editing_result(cfg, ms, editing, buffer) ==
    IF ~editing THEN Ok(cfg)
    ELSE apply_edit_at_path(cfg, get_current_field_path(ms), buffer)

\* A finish_editing without the early return for the Idle state
finish_editing_without_idle_return ==
    /\ ~panicked
    /\ commit(apply_edit_at_path(config, get_current_field_path(menu_state), edit_buffer))
    /\ editing_mode' = FALSE
    /\ UNCHANGED <<root_type, edit_buffer, edit_cursor, panicked>>

finish_editing ==
    /\ ~panicked
    /\ IF ~editing_mode
       THEN UNCHANGED <<config, menu_state, editing_mode>>
       ELSE /\ commit(finish_editing_result(config, menu_state, editing_mode, edit_buffer))
            /\ editing_mode' = FALSE
    /\ UNCHANGED <<root_type, edit_buffer, edit_cursor, panicked>>

\* A cancel_editing that leaves the Editing state and keeps what was typed
cancel_editing_keeps_buffer ==
    /\ ~panicked
    /\ editing_mode' = FALSE
    /\ UNCHANGED <<root_type, config, menu_state, edit_buffer, edit_cursor, panicked>>

cancel_editing ==
    /\ ~panicked
    /\ editing_mode' = FALSE
    /\ edit_buffer' = <<>>
    /\ edit_cursor' = 0
    /\ UNCHANGED <<root_type, config, menu_state, panicked>>

\* String::insert
String_insert(s, idx, c) ==
    LET i == CharIndex(s, idx) IN SubSeq(s, 1, i) \o <<c>> \o SubSeq(s, i + 1, Len(s))

\* String::remove
String_remove(s, idx) ==
    LET i == CharIndex(s, idx) IN SubSeq(s, 1, i) \o SubSeq(s, i + 2, Len(s))

\* String::insert panics unless idx is a character boundary.
can_insert(s, idx) == IsCharBoundary(s, idx)

\* String::remove panics unless a character starts at idx.
can_remove(s, idx) == idx < StrLen(s) /\ IsCharBoundary(s, idx)

handle_edit_input(c) ==
    /\ ~panicked
    /\ Len(edit_buffer) < MaxBuf
    /\ IF can_insert(edit_buffer, edit_cursor)
       THEN /\ edit_buffer' = String_insert(edit_buffer, edit_cursor, c)
            /\ edit_cursor' = edit_cursor + 1
            /\ UNCHANGED panicked
       ELSE /\ panicked' = TRUE
            /\ UNCHANGED <<edit_buffer, edit_cursor>>
    /\ UNCHANGED <<root_type, config, menu_state, editing_mode>>

handle_backspace ==
    /\ ~panicked
    /\ IF edit_cursor > 0
       THEN IF can_remove(edit_buffer, edit_cursor - 1)
            THEN /\ edit_buffer' = String_remove(edit_buffer, edit_cursor - 1)
                 /\ edit_cursor' = edit_cursor - 1
                 /\ UNCHANGED panicked
            ELSE /\ panicked' = TRUE
                 /\ UNCHANGED <<edit_buffer, edit_cursor>>
       ELSE UNCHANGED <<edit_buffer, edit_cursor, panicked>>
    /\ UNCHANGED <<root_type, config, menu_state, editing_mode>>

handle_delete ==
    /\ ~panicked
    /\ IF edit_cursor < StrLen(edit_buffer)
       THEN IF can_remove(edit_buffer, edit_cursor)
            THEN /\ edit_buffer' = String_remove(edit_buffer, edit_cursor)
                 /\ UNCHANGED <<edit_cursor, panicked>>
            ELSE /\ panicked' = TRUE
                 /\ UNCHANGED <<edit_buffer, edit_cursor>>
       ELSE UNCHANGED <<edit_buffer, edit_cursor, panicked>>
    /\ UNCHANGED <<root_type, config, menu_state, editing_mode>>

move_cursor_left ==
    /\ ~panicked
    /\ edit_cursor' = IF edit_cursor > 0 THEN edit_cursor - 1 ELSE edit_cursor
    /\ UNCHANGED <<root_type, config, menu_state, editing_mode, edit_buffer, panicked>>

\* A move_cursor_right that does not compare the cursor with the buffer length
move_cursor_right_unchecked ==
    /\ ~panicked
    /\ edit_cursor' = edit_cursor + 1
    /\ UNCHANGED <<root_type, config, menu_state, editing_mode, edit_buffer, panicked>>

move_cursor_right ==
    /\ ~panicked
    /\ edit_cursor' = IF edit_cursor < StrLen(edit_buffer) THEN edit_cursor + 1 ELSE edit_cursor
    /\ UNCHANGED <<root_type, config, menu_state, editing_mode, edit_buffer, panicked>>

Next ==
    \/ next
    \/ previous
    \/ go_back
    \/ enter_submenu
    \/ start_editing
    \/ toggle_boolean
    \/ finish_editing
    \/ cancel_editing
    \/ \E c \in Chars : handle_edit_input(c)
    \/ handle_backspace
    \/ handle_delete
    \/ move_cursor_left
    \/ move_cursor_right

Spec == Init /\ [][Next]_vars

\* A behaviour without commits: navigation, the edit session and the buffer.
NextNoCommit ==
    \/ next
    \/ previous
    \/ go_back
    \/ enter_submenu
    \/ start_editing
    \/ cancel_editing
    \/ \E c \in Chars : handle_edit_input(c)
    \/ handle_backspace
    \/ handle_delete
    \/ move_cursor_left
    \/ move_cursor_right

SpecNoCommit == Init /\ [][NextNoCommit]_vars

\* ------------------------------------------------------------------ persistence

\* The fields of a controller as MenuController::new builds them.
MenuController_new(cfg) ==
    [config |-> cfg,
     menu_state |-> MenuState_new(cfg),
     editing_mode |-> FALSE,
     edit_buffer |-> <<>>,
     edit_cursor |-> 0]

\* What std::fs::write and std::fs::read_to_string return.
IoResults == { Ok(<<>>), Err("io error") }

\* What toml::to_string_pretty returns for a root instance.
SerializeResults == { Ok(<<>>), Err("serialization error") }

\* What toml::from_str::<T> returns for the contents of a file: a parse
\* error, or an instance of the root type.
DeserializeResults(t) == { Err("parse error") } \cup { Ok(c) : c \in Configs(t) }

\* What save_to_file returns: serialized is the result of the serialization,
\* written the result of the write.
save_to_file_result(serialized, written) ==
    IF ~serialized.ok THEN serialized
    ELSE IF ~written.ok THEN written
    ELSE Ok(<<>>)

\* What load_from_file returns: contents is the result of the read, parsed
\* the result of the parse; on success the fields of the new controller.
load_from_file_result(contents, parsed) ==
    IF ~contents.ok THEN contents
    ELSE IF ~parsed.ok THEN parsed
    ELSE Ok(MenuController_new(parsed.val))

\* A save_to_file that ends the edit session before it writes
save_to_file_ends_session(serialized, written) ==
    /\ ~panicked
    /\ editing_mode' = FALSE
    /\ edit_buffer' = <<>>
    /\ edit_cursor' = 0
    /\ UNCHANGED <<root_type, config, menu_state, panicked>>

\* save_to_file borrows the controller immutably.
save_to_file(serialized, written) ==
    /\ ~panicked
    /\ UNCHANGED vars

\* load_from_file has no receiver: it builds a controller of its own and
\* the existing one is not in its reach.
load_from_file(contents, parsed) ==
    /\ ~panicked
    /\ UNCHANGED vars

\* The editor with saving and loading.
NextPersist ==
    \/ next
    \/ previous
    \/ go_back
    \/ enter_submenu
    \/ start_editing
    \/ toggle_boolean
    \/ finish_editing
    \/ cancel_editing
    \/ \E c \in Chars : handle_edit_input(c)
    \/ handle_backspace
    \/ handle_delete
    \/ move_cursor_left
    \/ move_cursor_right
    \/ \E serialized \in SerializeResults, written \in IoResults : save_to_file(serialized, written)
    \/ \E contents \in IoResults, parsed \in DeserializeResults(root_type) :
          load_from_file(contents, parsed)

SpecPersist == Init /\ [][NextPersist]_vars

\* ------------------------------------------------------------------ descent by the caller

\* The struct a field path from struct s leads to, field by field; None when
\* the path leaves the structs (a missing field, a leaf, a Vec).
RECURSIVE LevelType(_, _)
LevelType(s, path) ==
    IF path = <<>> THEN Some(s)
    ELSE LET found == FindField(get_field_metadata(s), Head(path))
         IN  IF found.some /\ found.val.is_nested /\ ~found.val.is_vec /\ ~found.val.is_option
             THEN LevelType(found.val.inner_ident.val, Tail(path))
             ELSE None

\* The instance a field path leads to.
RECURSIVE LevelInstance(_, _)
LevelInstance(v, path) == IF path = <<>> THEN v ELSE LevelInstance(v[Head(path)], Tail(path))

\* A caller of the public MenuState::enter_submenu_by_name that passes the
\* instance the current level shows (and so its type) and the selected
\* item's name.
enter_submenu_from_level ==
    /\ ~panicked
    /\ LET level == menu_state.menu_stack[Len(menu_state.menu_stack)]
           parent_type == LevelType(RootType, level.field_path)
           item == get_current_item(menu_state)
       IN  /\ parent_type.some
           /\ item.some
           /\ LET r == enter_submenu_by_name_in(menu_state, parent_type.val,
                                               LevelInstance(config, level.field_path),
                                               item.val.label)
              IN  menu_state' = IF r.ok THEN r.val ELSE menu_state
    /\ UNCHANGED <<root_type, config, session, panicked>>

\* The editor driven by an application that also descends by itself, with
\* texts typed at the end of the buffer.
NextReplay ==
    \/ next
    \/ previous
    \/ go_back
    \/ enter_submenu
    \/ enter_submenu_from_level
    \/ start_editing
    \/ toggle_boolean
    \/ finish_editing
    \/ cancel_editing
    \/ \E c \in Chars : handle_edit_input(c)
    \/ handle_backspace

SpecReplay == Init /\ [][NextReplay]_vars

\* ------------------------------------------------------------------ optional fields

\* MenuController::new on an Account
InitOptional ==
    /\ root_type = "Account"
    /\ config \in Configs(root_type)
    /\ menu_state = MenuState_new(config)
    /\ editing_mode = FALSE
    /\ edit_buffer = <<>>
    /\ edit_cursor = 0
    /\ panicked = FALSE

\* Browsing an Account and opening and leaving edit sessions on its items.
NextOptional ==
    \/ next
    \/ previous
    \/ go_back
    \/ enter_submenu
    \/ start_editing
    \/ cancel_editing
    \/ handle_backspace

SpecOptional == InitOptional /\ [][NextOptional]_vars

\* ------------------------------------------------------------------ reading the tree

\* The value stored at a field path, read field by field.
RECURSIVE ValueAt(_, _)
ValueAt(v, path) == IF path = <<>> THEN v ELSE ValueAt(v[Head(path)], Tail(path))

IsStruct(ty) == LET a == analyze_type(ty) IN a.is_nested /\ ~a.is_vec /\ ~a.is_option

IsPrimitive(ty) == LET a == analyze_type(ty) IN ~a.is_nested /\ ~a.is_vec /\ ~a.is_option

\* Every path from struct s to a field that is not itself a struct.
RECURSIVE FieldPaths(_)
FieldPaths(s) ==
    UNION { LET f == StructFields(s)[i]
            IN  IF IsStruct(f.ty) THEN { <<f.name>> \o p : p \in FieldPaths(f.ty.ident) }
                ELSE { <<f.name>> }
            : i \in 1..Len(StructFields(s)) }

\* The declared type of the field at a path from struct s.
RECURSIVE TypeAt(_, _)
TypeAt(s, path) ==
    LET f == StructFields(s)[CHOOSE i \in 1..Len(StructFields(s)) : StructFields(s)[i].name = Head(path)]
    IN  IF Len(path) = 1 THEN f.ty ELSE TypeAt(f.ty.ident, Tail(path))

\* By root type: the paths to the fields that are not structs, and their types.
FieldPathsOf == [t \in RootTypes |-> FieldPaths(t)]

TypeOfPath == [t \in RootTypes |-> [p \in FieldPathsOf[t] |-> TypeAt(t, p)]]

\* By root type: the paths to the primitive leaves.
LeafPathsOf == [t \in RootTypes |-> { p \in FieldPathsOf[t] : IsPrimitive(TypeOfPath[t][p]) }]

\* The items of the level at a field path, from the descriptors and instance
\* of each level on the way down; None where the descent is impossible.
RECURSIVE ItemsAt(_, _, _)
ItemsAt(any, metadata, path) ==
    IF path = <<>> THEN Some(build_menu_items_from_any(any, metadata))
    ELSE LET found == FindField(metadata, Head(path))
         IN  IF ~found.some \/ ~found.val.is_nested THEN None
             ELSE LET inner == nested_getter(found.val, any)
                  IN  IF ~inner.some THEN None
                      ELSE ItemsAt(inner.val, nested_metadata_getter(found.val), Tail(path))

LevelItems(cfg, path) == ItemsAt(as_any(cfg), get_field_metadata(RootType), path)

Depth == Len(menu_state.menu_stack)

TopLevel == menu_state.menu_stack[Depth]

TextTrue == <<"t", "r", "u", "e">>
TextFalse == <<"f", "a", "l", "s", "e">>

\* ------------------------------------------------------------------ claims

\* Texts the resolver is tried on in every state: what the buffer holds, the
\* two booleans, and numbers with a sign and with a leading zero.
SampleTexts == { edit_buffer, TextTrue, TextFalse, <<"+", "7">>, <<"0", "9">> }

\* C1: for every path of depth >= 2 to a leaf and every text that parses for
\* the leaf, apply_edit_at_path succeeds, the leaf read back through the path
\* is the parsed value, and every other field of the root is unchanged.
C1_NestedEditHitsOnlyTheLeaf ==
    \A p \in LeafPathsOf[root_type] : \A text \in SampleTexts :
        LET parsed == parse_from_string(TypeOfPath[root_type][p], text)
            r == apply_edit_at_path(config, p, text)
        IN  (Len(p) >= 2 /\ parsed.ok) =>
                /\ r.ok
                /\ ValueAt(r.val, p) = parsed.val
                /\ \A q \in FieldPathsOf[root_type] \ {p} : ValueAt(r.val, q) = ValueAt(config, q)

\* C1 witness: a value typed into the buffer was committed to the leaf
\* server.host, two levels down, with its sibling untouched.
C1_Witness ==
    /\ root_type = "Profile"
    /\ config.server.host = <<"7">>
    /\ config.server.tags = << <<"x">> >>
    /\ ~editing_mode

CurrentItem == get_current_item(menu_state)

\* C2: the items of every level on the stack, and the displayed items, are
\* the items of that level's field path evaluated against the current root.
C2_ItemsReflectRoot ==
    /\ \A i \in 1..Depth :
          LevelItems(config, menu_state.menu_stack[i].field_path) = Some(menu_state.menu_stack[i].items)
    /\ LevelItems(config, TopLevel.field_path) = Some(menu_state.items)

\* A finish_editing or toggle_boolean step whose resolver call succeeds.
CommitSucceeds ==
    \/ /\ finish_editing
       /\ editing_mode
       /\ finish_editing_result(config, menu_state, editing_mode, edit_buffer).ok
    \/ /\ toggle_boolean
       /\ can_toggle(CurrentItem)
       /\ toggle_boolean_result(config, menu_state).ok

\* C3: a successful finish_editing or toggle_boolean at stack depth d leaves
\* the stack at depth d with the same breadcrumb and navigation path, its root
\* level rebuilt from the mutated root.
C3_CommitRestoresDepth ==
    [][CommitSucceeds =>
          /\ Len(menu_state'.menu_stack) = Depth
          /\ menu_state'.breadcrumb = menu_state.breadcrumb
          /\ get_navigation_path(menu_state') = get_navigation_path(menu_state)
          /\ menu_state'.menu_stack[1].items = build_menu_items(config', get_field_metadata(RootType))
      ]_vars

\* C3 witness: back inside the server submenu with the typed host committed.
C3_Witness ==
    /\ root_type = "Profile"
    /\ menu_state.breadcrumb = <<"Profile", "server">>
    /\ Depth = 2
    /\ config.server.host = <<"7">>
    /\ menu_state.items[1].value = FormatString(<<"7">>)
    /\ edit_buffer = <<"7">>
    /\ ~editing_mode

\* A finish_editing step made while Editing whose resolver call fails.
FinishFails ==
    /\ finish_editing
    /\ editing_mode
    /\ ~finish_editing_result(config, menu_state, editing_mode, edit_buffer).ok

\* C4: a finish_editing whose resolver call fails leaves the session Idle
\* and the root and the navigation state as they were.
C4_FailedFinishChangesNothing ==
    [][FinishFails => /\ editing_mode' = FALSE
                      /\ config' = config
                      /\ menu_state' = menu_state
      ]_vars

\* C4 witness: Editing the integer leaf limits.max, one level down and with
\* the selection moved, on a buffer that is no number.
C4_Witness ==
    /\ root_type = "Settings"
    /\ editing_mode
    /\ get_current_field_path(menu_state) = <<"limits", "max">>
    /\ edit_buffer = <<"\"">>
    /\ ~finish_editing_result(config, menu_state, editing_mode, edit_buffer).ok

\* C5: at any depth enter_submenu on a nested item pushes the level of that
\* field of the current level's instance: its child items, title the field
\* name, selection 0, field path the parent's plus the name.
C5_EnterSubmenuAtAnyDepth ==
    [][(enter_submenu /\ CurrentItem.some /\ CurrentItem.val.is_submenu) =>
          LET field_name == CurrentItem.val.label
              path == Append(TopLevel.field_path, field_name)
              expected == LevelItems(config, path)
          IN  /\ expected.some
              /\ menu_state'.menu_stack =
                    Append(menu_state.menu_stack, MenuLevel(expected.val, 0, field_name, path))
              /\ menu_state'.breadcrumb = Append(menu_state.breadcrumb, field_name)
              /\ menu_state'.items = expected.val
              /\ menu_state'.current_selection = 0
      ]_vars

\* The index of the item with a label.
IndexOfLabel(items, label) == CHOOSE k \in 0..(Len(items) - 1) : items[k + 1].label = label

\* C6: go_back at depth > 1 pops the top level and the last breadcrumb title
\* and shows the parent's items with the selection the parent had when the
\* submenu was entered, which is the item the popped level is titled after.
C6_GoBackRestoresSelection ==
    [][(go_back /\ Depth > 1) =>
          /\ Len(menu_state'.menu_stack) = Depth - 1
          /\ menu_state'.breadcrumb = SubSeq(menu_state.breadcrumb, 1, Depth - 1)
          /\ menu_state'.items = menu_state.menu_stack[Depth - 1].items
          /\ menu_state'.current_selection =
                IndexOfLabel(menu_state.menu_stack[Depth - 1].items, TopLevel.title)
      ]_vars

\* C7: a toggle_boolean on a boolean leaf flips the stored value, a second
\* toggle_boolean right after it gives back the root as it was, and neither
\* call enters Editing.
C7_ToggleTwiceRestores ==
    [][(toggle_boolean /\ can_toggle(CurrentItem)) =>
          LET path == get_current_field_path(menu_state)
              second == toggle_boolean_result(config', menu_state')
          IN  /\ ValueAt(config', path) = ~ValueAt(config, path)
              /\ can_toggle(get_current_item(menu_state'))
              /\ second.ok
              /\ second.val = config
              /\ editing_mode' = editing_mode
      ]_vars

\* C8: start_editing on a leaf followed at once by finish_editing succeeds
\* and leaves the root as it was.
C8_UnmodifiedEditIsNoOp ==
    [][(start_editing /\ can_start_editing(CurrentItem)) =>
          LET r == finish_editing_result(config', menu_state', editing_mode', edit_buffer')
          IN  r.ok /\ r.val = config
      ]_vars

\* The text between the quotes of a display text, each escaped quote and
\* escaped backslash read as the character it stands for.
RECURSIVE Unescaped(_)
Unescaped(s) ==
    IF s = <<>> THEN <<>>
    ELSE IF Len(s) >= 2 /\ s[1] = "\\" /\ s[2] \in {"\"", "\\"}
    THEN <<s[2]>> \o Unescaped(SubSeq(s, 3, Len(s)))
    ELSE <<Head(s)>> \o Unescaped(Tail(s))

\* The buffer an edit of item starts with.
DisplayedText(item) ==
    IF item.field_type = "String" /\ Len(item.value) >= 2
           /\ item.value[1] = "\"" /\ item.value[Len(item.value)] = "\""
    THEN Unescaped(SubSeq(item.value, 2, Len(item.value) - 1))
    ELSE item.value

\* C9: start_editing on a submenu, on a repeated container or with nothing
\* selected leaves the session as it was; on a leaf it makes the session
\* Editing with the buffer the display text (unquoted and unescaped for a
\* string leaf) and the cursor at the buffer's end.
C9_StartEditingOnlyOnLeaf ==
    [][start_editing =>
          IF CurrentItem.some /\ ~CurrentItem.val.is_submenu /\ ~CurrentItem.val.is_vec_container
          THEN /\ editing_mode' = TRUE
               /\ edit_buffer' = DisplayedText(CurrentItem.val)
               /\ edit_cursor' = StrLen(edit_buffer')
          ELSE UNCHANGED session
      ]_vars

\* C9 witness: Editing the string leaf host, whose value is a backslash and
\* a quote, with the two characters in the buffer and the cursor behind them.
C9_Witness ==
    /\ root_type = "Profile"
    /\ editing_mode
    /\ CurrentItem.some
    /\ CurrentItem.val.label = "host"
    /\ CurrentItem.val.value = <<"\"", "\\", "\\", "\\", "\"", "\"">>
    /\ edit_buffer = <<"\\", "\"">>
    /\ edit_cursor = 2

\* C10: start_editing while Editing leaves the buffer, the cursor and the
\* Editing flag as they were.
C10_StartEditingOnlyFromIdle ==
    [][(start_editing /\ editing_mode) => UNCHANGED session]_vars

\* C11: toggle_boolean changes the root only when the session is outside
\* Editing and the selected item is a boolean leaf; called while Editing, on
\* a non-boolean item, a submenu, a repeated container or no item, it changes
\* neither the root nor the navigation state nor the edit session.
C11_ToggleOnlyFromIdleOnBoolean ==
    [][(toggle_boolean /\ (editing_mode \/ ~can_toggle(CurrentItem))) =>
          UNCHANGED <<config, menu_state, session>>
      ]_vars

\* C12: an enter_submenu that fails - the selected item is not nested (error
\* "not a submenu"), nothing is selected, or the descent fails - pushes no
\* level and leaves stack, breadcrumb, selection, items, root and session
\* exactly as they were.
C12_FailedEnterChangesNothing ==
    [][enter_submenu =>
          LET r == enter_submenu_result(menu_state, config)
          IN  /\ (CurrentItem.some /\ ~CurrentItem.val.is_submenu) =>
                     r = Err("Current item is not a submenu")
              /\ ~r.ok => /\ Len(menu_state'.menu_stack) = Depth
                          /\ menu_state'.breadcrumb = menu_state.breadcrumb
                          /\ menu_state'.current_selection = menu_state.current_selection
                          /\ menu_state'.items = menu_state.items
                          /\ menu_state' = menu_state
                          /\ UNCHANGED <<config, session>>
      ]_vars

\* C12 witness: inside the server submenu with the item limits selected, a
\* submenu on which the descent fails.
C12_Witness ==
    /\ root_type = "AppConfig"
    /\ menu_state.breadcrumb = <<"AppConfig", "server">>
    /\ CurrentItem.some
    /\ CurrentItem.val.label = "limits"
    /\ CurrentItem.val.is_submenu
    /\ ~enter_submenu_result(menu_state, config).ok

\* C13: cancel_editing, in any state, leaves the session Idle with an empty
\* buffer and cursor 0 and the root and the navigation state as they were,
\* and a finish_editing after it applies nothing to the tree.
C13_CancelDiscardsTheEdit ==
    [][cancel_editing =>
          /\ editing_mode' = FALSE
          /\ edit_buffer' = <<>>
          /\ edit_cursor' = 0
          /\ config' = config
          /\ menu_state' = menu_state
          /\ finish_editing_result(config', menu_state', editing_mode', edit_buffer') = Ok(config)
      ]_vars

\* C13 witness: Editing the leaf server.host with a typed text in the buffer
\* that differs from the stored value and that a commit would store.
C13_Witness ==
    /\ root_type = "Profile"
    /\ editing_mode
    /\ get_current_field_path(menu_state) = <<"server", "host">>
    /\ edit_buffer = <<"7">>
    /\ config.server.host # <<"7">>
    /\ finish_editing_result(config, menu_state, editing_mode, edit_buffer).ok

\* C14: in every reachable state the cursor is between 0 and the length of
\* the buffer (String::len, in bytes); backspace and cursor-left at cursor 0
\* and delete-forward and cursor-right at the buffer's end change nothing.
C14_CursorWithinBuffer ==
    /\ [](0 <= edit_cursor /\ edit_cursor <= StrLen(edit_buffer))
    /\ [][((handle_backspace \/ move_cursor_left) /\ edit_cursor = 0) => UNCHANGED vars]_vars
    /\ [][((handle_delete \/ move_cursor_right) /\ edit_cursor = StrLen(edit_buffer)) =>
             UNCHANGED vars]_vars

\* C14 witness: Editing with one typed two-byte character in the buffer and
\* the cursor, moved by one per insert, before the buffer's end.
C14_Witness ==
    /\ editing_mode
    /\ ~panicked
    /\ edit_buffer = <<WideChar>>
    /\ edit_cursor = 1
    /\ StrLen(edit_buffer) = 2

\* MenuState::next called k times
RECURSIVE NextTimes(_, _)
NextTimes(ms, k) == IF k = 0 THEN ms ELSE NextTimes(MenuState_next(ms), k - 1)

\* C15: on a level of n >= 1 items next moves the selection from i to
\* (i+1) mod n and previous from i to (i-1) mod n, each undoes the other, and
\* n calls of next return to the starting item; on an empty level both change
\* nothing; neither changes items, stack or breadcrumb.
C15_NextPreviousCycle ==
    [][LET n == Len(menu_state.items)
           i == menu_state.current_selection
           Frame == /\ menu_state'.items = menu_state.items
                    /\ menu_state'.menu_stack = menu_state.menu_stack
                    /\ menu_state'.breadcrumb = menu_state.breadcrumb
                    /\ UNCHANGED <<config, session>>
       IN  /\ next =>
                /\ Frame
                /\ IF n = 0 THEN menu_state' = menu_state
                   ELSE /\ menu_state'.current_selection = (i + 1) % n
                        /\ MenuState_previous(menu_state') = menu_state
                        /\ NextTimes(menu_state, n) = menu_state
           /\ previous =>
                /\ Frame
                /\ IF n = 0 THEN menu_state' = menu_state
                   ELSE /\ menu_state'.current_selection = (i + n - 1) % n
                        /\ MenuState_next(menu_state') = menu_state
      ]_vars

\* C15 witness: the last of the six items of the root level is selected,
\* from where next wraps to the first and to where previous wraps from it.
C15_Witness ==
    /\ root_type = "AppConfig"
    /\ Depth = 1
    /\ Len(menu_state.items) = 6
    /\ menu_state.current_selection = 5
    /\ MenuState_next(menu_state).current_selection = 0

\* C16: go_back at stack depth 1 changes nothing - stack, items, selection
\* and breadcrumb stay as they are - and the stack is never empty.
C16_RootLevelIsNeverPopped ==
    /\ [](Len(menu_state.menu_stack) >= 1)
    /\ [][(go_back /\ Depth = 1) =>
             /\ Len(menu_state'.menu_stack) = 1
             /\ menu_state'.items = menu_state.items
             /\ menu_state'.current_selection = menu_state.current_selection
             /\ menu_state'.breadcrumb = menu_state.breadcrumb
             /\ UNCHANGED vars
         ]_vars

\* C16 witness: at the root level, after a commit made there, with an item
\* other than the first selected.
C16_Witness ==
    /\ root_type = "AppConfig"
    /\ Depth = 1
    /\ ~can_go_back(menu_state)
    /\ config.debug = TRUE
    /\ menu_state.current_selection = 3

\* C17: the navigation stack is never empty and has the root level first;
\* the breadcrumb is the list of the levels' titles; the field path of each
\* level is the titles of the levels above the root up to it, so the
\* navigation path is the top level's field path; and with an item selected
\* the current field path is as long as the stack is deep.
C17_StackIsConsistent ==
    LET stack == menu_state.menu_stack
    IN  /\ Len(stack) >= 1
        /\ stack[1].title = get_menu_title(RootType)
        /\ stack[1].field_path = <<>>
        /\ Len(menu_state.breadcrumb) = Len(stack)
        /\ \A i \in 1..Len(stack) :
              /\ menu_state.breadcrumb[i] = stack[i].title
              /\ stack[i].field_path = [k \in 1..(i - 1) |-> stack[k + 1].title]
        /\ get_navigation_path(menu_state) = stack[Len(stack)].field_path
        /\ CurrentItem.some => Len(get_current_field_path(menu_state)) = Len(stack)

\* C17 witness: three levels deep, in tls under server, with the leaf
\* enabled selected.
C17_Witness ==
    /\ root_type = "AppConfig"
    /\ menu_state.breadcrumb = <<"AppConfig", "server", "tls">>
    /\ Depth = 3
    /\ get_current_field_path(menu_state) = <<"server", "tls", "enabled">>

\* C18: in every reachable state the current selection is an index into
\* the current items, or there are no items; get_current_item gives the item
\* at the selection exactly when the level is not empty.
C18_SelectionIsValid ==
    /\ menu_state.items = <<>> \/ menu_state.current_selection \in 0..(Len(menu_state.items) - 1)
    /\ menu_state.items # <<>> =>
          get_current_item(menu_state) = Some(menu_state.items[menu_state.current_selection + 1])
    /\ menu_state.items = <<>> => get_current_item(menu_state) = None

\* C18 witness: after a commit at the root, one level down in server with
\* its last item selected.
C18_Witness ==
    /\ root_type = "AppConfig"
    /\ config.debug = TRUE
    /\ menu_state.breadcrumb = <<"AppConfig", "server">>
    /\ Len(menu_state.items) = 3
    /\ menu_state.current_selection = 2

\* C19: a save_to_file or load_from_file that fails returns the error it
\* met and leaves the root, the navigation state and the edit session as
\* they were; a load that succeeds returns a new controller, Idle, at stack
\* depth 1 with selection 0, built from the loaded instance.
C19_FailedPersistenceChangesNothing ==
    /\ [][(\E serialized \in SerializeResults, written \in IoResults :
              /\ save_to_file(serialized, written)
              /\ ~save_to_file_result(serialized, written).ok) => UNCHANGED vars]_vars
    /\ [][(\E contents \in IoResults, parsed \in DeserializeResults(root_type) :
              /\ load_from_file(contents, parsed)
              /\ ~load_from_file_result(contents, parsed).ok) => UNCHANGED vars]_vars
    /\ [](\A serialized \in SerializeResults, written \in IoResults :
             LET r == save_to_file_result(serialized, written)
             IN  /\ r.ok <=> (serialized.ok /\ written.ok)
                 /\ ~r.ok => r \in {serialized, written})
    /\ [](\A contents \in IoResults, parsed \in DeserializeResults(root_type) :
             LET r == load_from_file_result(contents, parsed)
             IN  /\ r.ok <=> (contents.ok /\ parsed.ok)
                 /\ ~r.ok => r \in {contents, parsed}
                 /\ r.ok => /\ r.val.config = parsed.val
                            /\ ~r.val.editing_mode
                            /\ r.val.edit_buffer = <<>>
                            /\ r.val.edit_cursor = 0
                            /\ Len(r.val.menu_state.menu_stack) = 1
                            /\ r.val.menu_state.current_selection = 0
                            /\ r.val.menu_state.items =
                                  build_menu_items(parsed.val, get_field_metadata(RootType)))

\* C19 witness: an edited root that differs from every file's, one level
\* down and Editing, when a save or a load fails.
C19_Witness ==
    /\ root_type = "Settings"
    /\ config.retries = 7
    /\ Depth = 2
    /\ editing_mode
    /\ edit_buffer # <<>>
    /\ \A parsed \in DeserializeResults(root_type) : parsed.ok => parsed.val # config

\* The menu state reached from ms by entering names one after the other
\* with the root instance cfg; None if one of them cannot be entered.
RECURSIVE EnterAll(_, _, _)
EnterAll(ms, cfg, names) ==
    IF names = <<>> THEN Some(ms)
    ELSE LET r == enter_submenu_by_name(ms, cfg, Head(names))
         IN  IF r.ok THEN EnterAll(r.val, cfg, Tail(names)) ELSE None

\* A finish_editing made while Editing or a toggle_boolean made from Idle
\* whose resolver call succeeds and whose replay ends above the depth the
\* commit was made at.
ReplayFails ==
    /\ \/ /\ finish_editing
          /\ editing_mode
          /\ finish_editing_result(config, menu_state, editing_mode, edit_buffer).ok
       \/ /\ toggle_boolean
          /\ ~editing_mode
          /\ can_toggle(CurrentItem)
          /\ toggle_boolean_result(config, menu_state).ok
    /\ Len(menu_state'.menu_stack) < Depth

C21_RepeatedFieldIsInert ==
    [][(CurrentItem.some /\ CurrentItem.val.is_vec_container) =>
          /\ enter_submenu => menu_state' = menu_state
          /\ start_editing => UNCHANGED <<session, config>>
          /\ toggle_boolean => UNCHANGED <<session, config>>
      ]_vars

\* Each item of an optional leaf shows "<not set>" exactly when the value is
\* absent, and for a present value the text of the inner value.
OptionalItemsShown(items, metadata, instance) ==
    \A i \in 1..Len(metadata) :
        (metadata[i].is_option /\ ~metadata[i].is_nested) =>
            LET v == instance[metadata[i].name]
            IN  /\ (items[i].value = NotSet) <=> ~v.some
                /\ v.some => items[i].value = FormatValue(metadata[i].ty.args[1], v.val)

\* C22: on every level, the item of an optional leaf shows the marker
\* "<not set>" if and only if the value is absent, and shows a present value
\* as the inner value's text with only the wrapper removed, also when that
\* text has "None", "Some(" or ")" in it.
C22_OptionalDisplay ==
    \A i \in 1..Depth :
        LET level == menu_state.menu_stack[i]
            t == LevelType(RootType, level.field_path)
        IN  t.some => OptionalItemsShown(level.items, get_field_metadata(t.val),
                                         LevelInstance(config, level.field_path))

\* The messages of the resolver's failures.
EmptyPath == "Empty field path"
NotFoundAtRoot == "Field not found"
NotFoundBelow == "Field not found in nested structure"
NotNested == "Field is not nested"
AccessFailed == "Failed to get nested field"
SetterTypeMismatch == "Type mismatch"
AscendTypeMismatch == "Type mismatch when setting nested field"

\* Texts no integer and no boolean leaf accepts.
BadTexts == { <<>>, <<"\"">>, <<"7", "7", "7">>, <<"-", "7">>, <<"T", "r", "u", "e">> }

\* Paths that cannot be resolved, by root type, with the failure of each.
FailingPaths ==
    [ t \in RootTypes |->
        { <<<<>>, EmptyPath>>, <<<<"nope">>, NotFoundAtRoot>> } \cup
        CASE t = "AppConfig" ->
                { <<<<"server", "nope">>, NotFoundBelow>>,
                  <<<<"server", "tls", "nope">>, NotFoundBelow>>,
                  <<<<"server", "limits", "nope", "max">>, NotFoundBelow>>,
                  <<<<"debug", "enabled">>, NotNested>>,
                  <<<<"tags", "enabled">>, NotNested>>,
                  <<<<"server", "limits", "max", "max">>, NotNested>>,
                  <<<<"tls", "enabled", "enabled">>, NotNested>>,
                  <<<<"peers", "tls", "enabled">>, AccessFailed>>,
                  <<<<"peers", "limits", "max">>, AccessFailed>>,
                  <<<<"peers", "tls">>, SetterTypeMismatch>> }
          [] t = "Profile" ->
                { <<<<"server", "nope">>, NotFoundBelow>>,
                  <<<<"tags", "host">>, NotNested>>,
                  <<<<"server", "host", "host">>, NotNested>>,
                  <<<<"server", "tags", "host">>, NotNested>> }
          [] t = "Settings" ->
                { <<<<"limits", "nope">>, NotFoundBelow>>,
                  <<<<"retries", "max">>, NotNested>>,
                  <<<<"limits", "max", "max">>, NotNested>> } ]

\* The integer and boolean leaves, by root type.
StrictLeafPaths ==
    [ t \in RootTypes |->
        { p \in LeafPathsOf[t] : TypeOfPath[t][p].ident \in {"u8", "bool"} } ]

\* Every failure of the resolver on the current root is the error of its kind.
ResolverReports ==
    /\ \A c \in FailingPaths[root_type] : \A text \in {edit_buffer, TextTrue, <<"7">>} :
          apply_edit_at_path(config, c[1], text) = Err(c[2])
    /\ \A p \in StrictLeafPaths[root_type] : \A text \in BadTexts :
          apply_edit_at_path(config, p, text) = Err(ParseFailed)
    /\ \A i \in 1..Len(get_field_metadata(RootType)) :
          LET m == get_field_metadata(RootType)[i]
          IN  m.is_nested =>
                /\ nested_setter(m, as_any(config), BoxAny(Ty("bool"), TRUE)) = Err(AscendTypeMismatch)
                /\ nested_setter(m, as_any(config), as_any(config)) = Err(AscendTypeMismatch)
                /\ nested_setter(m, BoxAny(Ty("bool"), TRUE), BoxAny(m.ty, config[m.name]))
                      = Err("Config type mismatch")

\* A finish_editing step made while Editing, or a toggle_boolean step on a
\* boolean item, whose resolver call fails.
CommitFails ==
    \/ /\ editing_mode
       /\ ~finish_editing_result(config, menu_state, editing_mode, edit_buffer).ok
       /\ finish_editing
    \/ /\ can_toggle(CurrentItem)
       /\ ~toggle_boolean_result(config, menu_state).ok
       /\ toggle_boolean

\* C23: the resolver reports each failure as the error of its kind (an empty
\* path, an unknown name, a descent through a leaf, a descent that yields
\* nothing, a capsule of the wrong type, a text that does not convert), at
\* every depth of the path, and a finish_editing or toggle_boolean whose
\* resolver call fails leaves the root as it was.
C23_ResolverFailures ==
    /\ []ResolverReports
    /\ [][config' = config \/ ~CommitFails]_vars

\* C23 witness: Editing the integer leaf server.limits.max, three levels
\* down, with a quote typed over its value: the resolver is about to fail on
\* the text, and fails with the errors of the other kinds on the same root.
C23_Witness ==
    /\ root_type = "AppConfig"
    /\ editing_mode
    /\ get_current_field_path(menu_state) = <<"server", "limits", "max">>
    /\ edit_buffer = <<"\"">>
    /\ finish_editing_result(config, menu_state, editing_mode, edit_buffer) = Err(ParseFailed)
    /\ apply_edit_at_path(config, <<"peers", "tls", "enabled">>, edit_buffer) = Err(AccessFailed)

\* The navigation states one navigation call away from ms: next, previous,
\* go_back, and enter_submenu where it succeeds.
Moves(ms) ==
    { MenuState_next(ms), MenuState_previous(ms), MenuState_go_back(ms),
      IF enter_submenu_result(ms, config).ok THEN enter_submenu_result(ms, config).val ELSE ms }

\* C24: a successful finish_editing changes the field that was selected when
\* start_editing was called and no other: whatever navigation calls (here up
\* to two of next, previous, enter_submenu, go_back) come between the two,
\* every leaf but the one editing began on keeps its value.
C24_FinishHitsTheItemEditingBeganOn ==
    [][(start_editing /\ can_start_editing(CurrentItem)) =>
          LET began_on == get_current_field_path(menu_state)
          IN  \A m1 \in Moves(menu_state') \cup {menu_state'} :
                  \A m2 \in Moves(m1) \cup {m1} :
                      LET r == finish_editing_result(config', m2, editing_mode', edit_buffer')
                      IN  r.ok => \A q \in LeafPathsOf[root_type] \ {began_on} :
                                      ValueAt(r.val, q) = ValueAt(config, q)
      ]_vars

\* C25: no sequence of start_editing and buffer operations aborts the
\* program: in every reachable state the cursor is on a character boundary of
\* the buffer and no insert, backspace or delete has panicked, also with
\* characters of more than one byte in the buffer.
C25_BufferOperationsNeverAbort ==
    /\ ~panicked
    /\ IsCharBoundary(edit_buffer, edit_cursor)

\* A step of an operation other than toggle_boolean and finish_editing
\* called while Editing.
NonCommittingStep ==
    \/ next
    \/ previous
    \/ enter_submenu
    \/ go_back
    \/ start_editing
    \/ cancel_editing
    \/ \E c \in Chars : handle_edit_input(c)
    \/ handle_backspace
    \/ handle_delete
    \/ move_cursor_left
    \/ move_cursor_right
    \/ \E serialized \in SerializeResults, written \in IoResults : save_to_file(serialized, written)
    \/ (~editing_mode /\ finish_editing)

\* C26: the root changes only through finish_editing called while Editing
\* or through toggle_boolean: the navigation calls, start_editing,
\* cancel_editing, the buffer operations, save_to_file, and finish_editing
\* called while Idle, stale text in the buffer or not, leave it as it was.
C26_RootChangesOnlyByCommit ==
    [][config' = config \/ ~NonCommittingStep]_vars

\* C26 witness: Idle on the item retries, with the text of an earlier
\* session, committed to limits.max, still in the buffer; the text is not
\* the value of retries, and finish_editing returns the root as it is.
C26_Witness ==
    /\ root_type = "Settings"
    /\ ~editing_mode
    /\ edit_buffer = <<"7">>
    /\ config.limits.max = 7
    /\ config.retries = 3
    /\ get_current_field_path(menu_state) = <<"retries">>
    /\ apply_edit_at_path(config, <<"retries">>, edit_buffer).ok
    /\ finish_editing_result(config, menu_state, editing_mode, edit_buffer) = Ok(config)

\* A finish_editing step made while Editing, or a toggle_boolean step on a
\* boolean item, whose resolver call succeeds.
CommitDone ==
    \/ /\ editing_mode
       /\ finish_editing_result(config, menu_state, editing_mode, edit_buffer).ok
       /\ finish_editing
    \/ /\ can_toggle(CurrentItem)
       /\ toggle_boolean_result(config, menu_state).ok
       /\ toggle_boolean

\* The current selection, the list selection and the stored selection of
\* each level of a menu state.
Selections(ms) ==
    << ms.current_selection, ms.list_state,
       [i \in 1..Len(ms.menu_stack) |-> ms.menu_stack[i].selection] >>

\* C27: after a successful finish_editing or toggle_boolean the current
\* selection and the stored selection of every level on the stack are 0,
\* whatever item was selected before; after a failed one the selections are
\* those of before the call.
C27_CommitResetsSelection ==
    [][/\ CommitDone =>
             /\ menu_state'.current_selection = 0
             /\ menu_state'.list_state = Some(0)
             /\ \A i \in 1..Len(menu_state'.menu_stack) : menu_state'.menu_stack[i].selection = 0
       /\ CommitFails => Selections(menu_state') = Selections(menu_state)
      ]_vars

\* C27 witness: the second item of the root level, debug, was toggled to
\* true; the editor is on the rebuilt root level with the first item
\* selected.
C27_Witness ==
    /\ root_type = "AppConfig"
    /\ config.debug
    /\ Depth = 1
    /\ menu_state.items[2].value = FormatBool(TRUE)
    /\ menu_state.current_selection = 0
    /\ menu_state.list_state = Some(0)
    /\ menu_state.menu_stack[1].selection = 0
    /\ ~editing_mode

====
